---- MODULE Spec2Model ----
(***************************************************************************)
(* RC4 stream cipher engine (src/main.rs): struct Rc4 { s, i, j } with     *)
(* Rc4::new (key scheduling), Rc4::process (in-place keystream XOR) and    *)
(* Rc4::apply (copying wrapper).                                           *)
(*                                                                         *)
(* The specifications share the operators translated from the code:        *)
(*   Spec         - a caller owning two engines, one action per call;      *)
(*   SpecStep     - one engine, one action per loop iteration;             *)
(*   SpecStepFair - SpecStep where a call that was entered keeps running;  *)
(*   SpecLong     - one engine given more than 256 bytes, byte by byte.    *)
(***************************************************************************)
EXTENDS Integers, Sequences, FiniteSets

VARIABLES
    rc4,       \* per caller variable: the engine it holds, <<>> or <<[s, i, j]>>
    keyOf,     \* per caller variable: the key given to Rc4::new, <<>> or <<key>>
    panicked,  \* the caller's thread has panicked in Rc4::new
    inAll,     \* per engine: all bytes given to it since it was built
    outAll,    \* per engine: all bytes it has produced since it was built
    last,      \* per engine: the last returned call, <<>> or <<[pre, arg, out]>>
    frame      \* the call in progress and its locals ([pc |-> "idle"] if none)

vars == <<rc4, keyOf, panicked, inAll, outAll, last, frame>>

\* ------------------------------------------------------------------ bounds

\* Most bytes the caller of Spec gives to its two engines together.
MaxBytes == 4

\* Most bytes the caller of SpecStep gives to its engine.
MaxStepBytes == 10

\* Most bytes the caller of SpecLong gives to its engine.
MaxLongBytes == 257

\* ------------------------------------------------------- program constants

\* [u8; 256]: the length of the state array, and the modulus of u8 arithmetic.
TableSize == 256

Byte == 0 .. (TableSize - 1)

\* ---------------------------------------------------------------- helpers

\* Mutant of WrappingAdd: the sum is not reduced, the carry is kept.
WrappingAddCarry(a, b) == a + b

\* u8::wrapping_add
WrappingAdd(a, b) == (a + b) % TableSize

\* Mutant of BitXor: the key byte is added, not xored.
BitAdd(a, b) == (a + b) % 256

\* The ^ operator on u8, bit by bit.
RECURSIVE BitXor(_, _)
BitXor(a, b) ==
    IF a = 0 /\ b = 0 THEN 0
    ELSE (((a % 2) + (b % 2)) % 2) + (2 * BitXor(a \div 2, b \div 2))

\* Mutant of Swap: s[a] = s[b] alone, the old s[a] is lost.
SwapLossy(s, a, b) == [s EXCEPT ![a] = s[b]]

\* slice::swap(a, b) on the state array.
Swap(s, a, b) == [s EXCEPT ![a] = s[b], ![b] = s[a]]

\* let mut s = [0u8; 256]; (the one array of 256 zero bytes)
ZeroTable == CHOOSE s \in [Byte -> {0}] : TRUE

\* Mutant of FillStep: the last entry, s[255], is never written.
FillStepSkipLast(s, n) == IF n = 255 THEN s ELSE [s EXCEPT ![n] = n]

\* Body of the fill loop: s[i as usize] = i;
FillStep(s, n) == [s EXCEPT ![n] = n]

\* for i in 0..=255 { s[i as usize] = i; }: the iterations i = lo .. hi of
\* the loop, in order, on the array s.  (The range is halved, and the test
\* first = first, which always holds, makes TLC evaluate the first half before
\* it enters the second: TLC evaluates operator arguments on demand, and a
\* chain of 256 pending iterations overflows its stack.)
RECURSIVE FillLoop(_, _, _)
FillLoop(s, lo, hi) ==
    IF lo > hi THEN s
    ELSE IF lo = hi THEN FillStep(s, lo)
    ELSE LET mid   == (lo + hi) \div 2
             first == FillLoop(s, lo, mid)
         IN  IF first = first THEN FillLoop(first, mid + 1, hi) ELSE first

\* Mutant of MixStep: the key byte is left out of j.
MixStepNoKey(s, j, i, keyBytes) ==
    LET j2 == (j + s[i]) % 256
    IN  [s |-> [s EXCEPT ![i] = s[j2], ![j2] = s[i]], j |-> j2]

\* Mutant of MixStep: past the end of the key its last byte is used again,
\* the key is not taken from its start.
MixStepKeyClamped(s, j, i, keyBytes) ==
    LET key_byte == keyBytes[IF i < Len(keyBytes) THEN i + 1 ELSE Len(keyBytes)]
        j2 == (j + s[i] + key_byte) % 256
    IN  [s |-> [s EXCEPT ![i] = s[j2], ![j2] = s[i]], j |-> j2]

\* Body of the mixing loop, for the usize counter i and the u8 accumulator j.
MixStep(s, j, i, keyBytes) ==
    LET key_byte == keyBytes[(i % Len(keyBytes)) + 1]
        j2 == WrappingAdd(WrappingAdd(j, s[i]), key_byte)
    IN  [s |-> Swap(s, i, j2), j |-> j2]

\* for i in 0..256 { ... }: the iterations i = lo .. hi-1 of the loop, in
\* order, on st = [s, j] (halved as FillLoop is).
RECURSIVE MixLoop(_, _, _, _)
MixLoop(st, lo, hi, keyBytes) ==
    IF lo >= hi THEN st
    ELSE IF hi = lo + 1 THEN MixStep(st.s, st.j, lo, keyBytes)
    ELSE LET mid   == (lo + hi) \div 2
             first == MixLoop(st, lo, mid, keyBytes)
         IN  IF first = first THEN MixLoop(first, mid, hi, keyBytes) ELSE first

\* Mutant of KeyRejected: a key of 256 bytes is rejected too.
KeyRejectedAt256(keyBytes) == Len(keyBytes) = 0 \/ Len(keyBytes) >= 256

\* The key check at the head of Rc4::new.
KeyRejected(keyBytes) == Len(keyBytes) = 0 \/ Len(keyBytes) > TableSize

\* Rc4 { s, i: 0, j: 0 }
Rc4Struct(s) == [s |-> s, i |-> 0, j |-> 0]

\* Mutant of New: j starts from a count shared by all engines (the engines
\* built before this one), not from 0.
NewSharedCount(keyBytes) ==
    LET built  == Cardinality({e \in DOMAIN keyOf : keyOf[e] /= <<>>})
        filled == FillLoop(ZeroTable, 0, 255)
        mixed  == MixLoop([s |-> filled, j |-> built], 0, 256, keyBytes)
    IN  Rc4Struct(mixed.s)

\* Rc4::new for an accepted key.
New(keyBytes) ==
    LET filled == FillLoop(ZeroTable, 0, TableSize - 1)
        mixed  == MixLoop([s |-> filled, j |-> 0], 0, TableSize, keyBytes)
    IN  Rc4Struct(mixed.s)

\* Mutant of ByteStep: the input byte is fed back into j.
ByteStepFeedback(s, i, j, byte) ==
    LET i2 == (i + 1) % 256
        si == s[i2]
        j2 == (j + si + byte) % 256
        sj == s[j2]
        s2 == [s EXCEPT ![i2] = sj, ![j2] = si]
        k  == s2[(si + sj) % 256]
    IN  [s |-> s2, i |-> i2, j |-> j2, byte |-> BitXor(byte, k)]

\* Mutant of ByteStep: the keystream byte is read before the swap.
ByteStepKeyBeforeSwap(s, i, j, byte) ==
    LET i2 == (i + 1) % 256
        si == s[i2]
        j2 == (j + si) % 256
        sj == s[j2]
        s2 == [s EXCEPT ![i2] = sj, ![j2] = si]
        k  == s[(si + sj) % 256]
    IN  [s |-> s2, i |-> i2, j |-> j2, byte |-> BitXor(byte, k)]

\* Mutant of ByteStep: i is stepped with a saturating add, it stays at 255.
ByteStepSaturating(s, i, j, byte) ==
    LET i2 == IF i = 255 THEN 255 ELSE i + 1
        si == s[i2]
        j2 == (j + si) % 256
        sj == s[j2]
        s2 == [s EXCEPT ![i2] = sj, ![j2] = si]
        k  == s2[(si + sj) % 256]
    IN  [s |-> s2, i |-> i2, j |-> j2, byte |-> BitXor(byte, k)]

\* One iteration of the loop of Rc4::process over the locals i, j, the
\* borrowed array s and the current byte.
ByteStep(s, i, j, byte) ==
    LET i2 == WrappingAdd(i, 1)
        si == s[i2]
        j2 == WrappingAdd(j, si)
        sj == s[j2]
        s2 == Swap(s, i2, j2)
        t  == WrappingAdd(si, sj)
        k  == s2[t]
    IN  [s |-> s2, i |-> i2, j |-> j2, byte |-> BitXor(byte, k)]

\* for byte in data.iter_mut() { ... }: the iterations over the bytes at
\* lo .. hi (1-based) of the buffer, in order, on st = [s, i, j, data]: the
\* locals i and j, the borrowed array and the buffer (halved as FillLoop is).
RECURSIVE ProcessLoop(_, _, _)
ProcessLoop(st, lo, hi) ==
    IF lo > hi THEN st
    ELSE IF lo = hi
         THEN LET r == ByteStep(st.s, st.i, st.j, st.data[lo])
              IN  [s |-> r.s, i |-> r.i, j |-> r.j,
                   data |-> [st.data EXCEPT ![lo] = r.byte]]
    ELSE LET mid   == (lo + hi) \div 2
             first == ProcessLoop(st, lo, mid)
         IN  IF first = first THEN ProcessLoop(first, mid + 1, hi) ELSE first

\* Mutant of StoreBack: self.j = j is forgotten, self.j keeps 0.
StoreBackDropJ(s, i, j) == [s |-> s, i |-> i, j |-> 0]

\* Writing the locals back: self.i = i; self.j = j; (s is self.s itself).
StoreBack(s, i, j) == [s |-> s, i |-> i, j |-> j]

\* Rc4::process(&mut self, data): the engine and the buffer after the call.
Process(self, data) ==
    LET r == ProcessLoop([s |-> self.s, i |-> self.i, j |-> self.j, data |-> data],
                         1, Len(data))
    IN  [self |-> StoreBack(r.s, r.i, r.j), data |-> r.data]

\* Mutant of Apply: the processed bytes are appended to the copy.
ApplyExtending(self, data) ==
    LET r == Process(self, data)
    IN  [self |-> r.self, data |-> data, ret |-> data \o r.data]

\* Rc4::apply(&mut self, data): the engine, the caller's slice and the
\* returned vector after the call.
Apply(self, data) ==
    LET output == data
        r == Process(self, output)
    IN  [self |-> r.self, data |-> data, ret |-> r.data]


\* ------------------------------------------------------------ the caller

\* The caller's engine variables (the tests' rc4_enc and rc4_dec).
Engines == {"rc4_enc", "rc4_dec"}

\* Byte values the caller's buffers are drawn from.
DataBytes == {0, 165}

\* The caller's buffers: every sequence over DataBytes of at most n bytes.
Buffers(n) == UNION {[1 .. m -> DataBytes] : m \in 0 .. n}

\* b"Key", and keys of the boundary lengths 1 and 256.
KeyKey == <<75, 101, 121>>
Key1   == <<7>>
Key256 == [n \in 1 .. TableSize |-> (n * 7) % TableSize]

\* Rejected keys: the empty key and a key of 257 bytes.
Key0   == <<>>
Key257 == [n \in 1 .. (TableSize + 1) |-> n % TableSize]

\* Keys the caller of Spec builds its two engines from.
PairKeys == {KeyKey, Key1, Key0, Key257}

Idle == [pc |-> "idle"]

\* Bytes given so far to the two engines together.
TotalBytes == Len(inAll["rc4_enc"]) + Len(inAll["rc4_dec"])

\* Buffers the caller may pass to engine e: a fresh one or, to rc4_dec, what
\* the last call of rc4_enc produced (as test_symmetry does to decrypt).
Inputs(e) ==
    Buffers(MaxBytes - TotalBytes)
        \cup {last[o][1].out : o \in {x \in {"rc4_enc"} \ {e} : last[x] /= <<>>}}

Init ==
    /\ rc4 = [e \in Engines |-> <<>>]
    /\ keyOf = [e \in Engines |-> <<>>]
    /\ panicked = FALSE
    /\ inAll = [e \in Engines |-> <<>>]
    /\ outAll = [e \in Engines |-> <<>>]
    /\ last = [e \in Engines |-> <<>>]
    /\ frame = Idle

\* let mut e = Rc4::new(key); the panic of a rejected key unwinds the caller's
\* thread before any engine exists.
CallNew(e, keyBytes) ==
    /\ ~panicked
    /\ frame = Idle
    /\ keyOf[e] = <<>>
    /\ keyOf' = [keyOf EXCEPT ![e] = <<keyBytes>>]
    /\ IF KeyRejected(keyBytes)
       THEN /\ panicked' = TRUE
            /\ rc4' = rc4
       ELSE /\ panicked' = FALSE
            /\ rc4' = [rc4 EXCEPT ![e] = <<New(keyBytes)>>]
    /\ UNCHANGED <<inAll, outAll, last, frame>>

\* What the caller records of a returned call.
Returned(e, call) ==
    /\ inAll' = [inAll EXCEPT ![e] = @ \o call.arg]
    /\ outAll' = [outAll EXCEPT ![e] = @ \o call.out]
    /\ last' = [last EXCEPT ![e] = <<call>>]

\* Mutant of CallProcess: i and j are shared by all engines (one pair of
\* counters for the whole program), the call stores them into every engine.
CallProcessSharedIndices(e, data) ==
    /\ ~panicked
    /\ frame = Idle
    /\ rc4[e] /= <<>>
    /\ TotalBytes + Len(data) <= MaxBytes
    /\ LET r == Process(rc4[e][1], data)
       IN  /\ rc4' = [x \in Engines |->
                        IF x = e THEN <<r.self>>
                        ELSE IF rc4[x] = <<>> THEN <<>>
                        ELSE <<[rc4[x][1] EXCEPT !.i = r.self.i, !.j = r.self.j]>>]
           /\ Returned(e, [pre |-> rc4[e][1], arg |-> data, out |-> r.data])
    /\ UNCHANGED <<keyOf, panicked, frame>>

\* e.process(&mut data);
CallProcess(e, data) ==
    /\ ~panicked
    /\ frame = Idle
    /\ rc4[e] /= <<>>
    /\ TotalBytes + Len(data) <= MaxBytes
    /\ LET r == Process(rc4[e][1], data)
       IN  /\ rc4' = [rc4 EXCEPT ![e] = <<r.self>>]
           /\ Returned(e, [pre |-> rc4[e][1], arg |-> data, out |-> r.data])
    /\ UNCHANGED <<keyOf, panicked, frame>>

\* let ret = e.apply(&data);
CallApply(e, data) ==
    /\ ~panicked
    /\ frame = Idle
    /\ rc4[e] /= <<>>
    /\ TotalBytes + Len(data) <= MaxBytes
    /\ LET r == Apply(rc4[e][1], data)
       IN  /\ rc4' = [rc4 EXCEPT ![e] = <<r.self>>]
           /\ Returned(e, [pre |-> rc4[e][1], arg |-> data, out |-> r.ret])
    /\ UNCHANGED <<keyOf, panicked, frame>>

Next ==
    \E e \in Engines :
        \/ \E keyBytes \in PairKeys : CallNew(e, keyBytes)
        \/ \E data \in Inputs(e) : CallProcess(e, data)
        \/ \E data \in Inputs(e) : CallApply(e, data)

Spec == Init /\ [][Next]_vars

\* --------------------------------------------- one engine, loop by loop

\* The reference vectors' keys and plaintexts: b"Wiki", b"Plaintext", b"pedia".
KeyWiki   == <<87, 105, 107, 105>>
Plaintext == <<80, 108, 97, 105, 110, 116, 101, 120, 116>>
Pedia     == <<112, 101, 100, 105, 97>>

\* A one-byte key whose engine has i = j = 2 after its second byte.
KeyMeet == <<26>>

\* b"KeyKey", and a key of 128 bytes (the longest that can be given twice over).
KeyKeyKey == KeyKey \o KeyKey
Key128    == [n \in 1 .. (TableSize \div 2) |-> (n * 11) % TableSize]

\* Keys and buffers the caller of SpecStep draws from.
StepKeys   ==
    {KeyKey, KeyKeyKey, KeyWiki, Key1, KeyMeet, Key128, Key256, Key0, Key257}
StepInputs == {<<>>, <<0, 165>>, Pedia, Plaintext}

\* Rc4::new entered: the key check, then let mut s = [0u8; 256] and the
\* first value of the range 0..=255.
NewEnter(e, keyBytes) ==
    /\ ~panicked
    /\ frame.pc = "idle"
    /\ keyOf[e] = <<>>
    /\ keyOf' = [keyOf EXCEPT ![e] = <<keyBytes>>]
    /\ IF KeyRejected(keyBytes)
       THEN /\ panicked' = TRUE
            /\ frame' = frame
       ELSE /\ panicked' = FALSE
            /\ frame' = [pc |-> "fill", e |-> e, key |-> keyBytes,
                         s |-> ZeroTable, n |-> 0]
    /\ UNCHANGED <<rc4, inAll, outAll, last>>

\* Mutant of FillIter: the u8 counter is stepped past 255 and wraps to 0, the
\* loop never ends.
FillIterWrapping ==
    /\ frame.pc = "fill"
    /\ frame' = [frame EXCEPT !.s = [@ EXCEPT ![frame.n] = frame.n],
                              !.n = (@ + 1) % 256]
    /\ UNCHANGED <<rc4, keyOf, panicked, inAll, outAll, last>>

\* One iteration of for i in 0..=255 (i: u8); the range ends after 255.
FillIter ==
    /\ frame.pc = "fill"
    /\ LET s2 == FillStep(frame.s, frame.n)
       IN  frame' = IF frame.n = TableSize - 1
                    THEN [pc |-> "mix", e |-> frame.e, key |-> frame.key,
                          s |-> s2, j |-> 0, i |-> 0]
                    ELSE [frame EXCEPT !.s = s2, !.n = @ + 1]
    /\ UNCHANGED <<rc4, keyOf, panicked, inAll, outAll, last>>

\* One iteration of for i in 0..256 (i: usize).
MixIter ==
    /\ frame.pc = "mix"
    /\ frame.i < TableSize
    /\ LET r == MixStep(frame.s, frame.j, frame.i, frame.key)
       IN  frame' = [frame EXCEPT !.s = r.s, !.j = r.j, !.i = @ + 1]
    /\ UNCHANGED <<rc4, keyOf, panicked, inAll, outAll, last>>

\* The mixing loop is over: Rc4 { s, i: 0, j: 0 } goes to the caller.
NewReturn ==
    /\ frame.pc = "mix"
    /\ frame.i >= TableSize
    /\ rc4' = [rc4 EXCEPT ![frame.e] = <<Rc4Struct(frame.s)>>]
    /\ frame' = Idle
    /\ UNCHANGED <<keyOf, panicked, inAll, outAll, last>>

\* Mutant of LoopFrame: the locals start from 0, not from self.i and self.j.
LoopFrameFromZero(e, op, input, buf) ==
    [pc |-> "loop", e |-> e, op |-> op, pre |-> rc4[e][1], arg |-> input,
     input |-> input, buf |-> buf, i |-> 0, j |-> 0, pos |-> 1]

\* Rc4::process entered on the buffer buf: the locals i and j are loaded
\* (s borrows self.s), the iterator stands at the first byte.
LoopFrame(e, op, input, buf) ==
    [pc |-> "loop", e |-> e, op |-> op, pre |-> rc4[e][1], arg |-> input,
     input |-> input, buf |-> buf, i |-> rc4[e][1].i, j |-> rc4[e][1].j,
     pos |-> 1]

\* e.process(&mut data) entered: the buffer is the caller's own.
ProcessEnter(e, data) ==
    /\ ~panicked
    /\ frame.pc = "idle"
    /\ rc4[e] /= <<>>
    /\ Len(inAll[e]) + Len(data) <= MaxStepBytes
    /\ frame' = LoopFrame(e, "process", data, data)
    /\ UNCHANGED <<rc4, keyOf, panicked, inAll, outAll, last>>

\* Mutant of ToVec: a zeroed vector of the same length, nothing copied.
ToVecZeroed(data) == [n \in 1 .. Len(data) |-> 0]

\* data.to_vec()
ToVec(data) == data

\* e.apply(&data) entered: let mut output = data.to_vec(), then
\* self.process(&mut output).
ApplyEnter(e, data) ==
    /\ ~panicked
    /\ frame.pc = "idle"
    /\ rc4[e] /= <<>>
    /\ Len(inAll[e]) + Len(data) <= MaxStepBytes
    /\ frame' = LoopFrame(e, "apply", data, ToVec(data))
    /\ UNCHANGED <<rc4, keyOf, panicked, inAll, outAll, last>>

\* One iteration of for byte in data.iter_mut(): self.s and the buffer are
\* written in place, i and j are the locals.
ByteIter ==
    /\ frame.pc = "loop"
    /\ frame.pos <= Len(frame.buf)
    /\ LET self == rc4[frame.e][1]
           r    == ByteStep(self.s, frame.i, frame.j, frame.buf[frame.pos])
       IN  /\ rc4' = [rc4 EXCEPT ![frame.e] = <<[self EXCEPT !.s = r.s]>>]
           /\ frame' = [frame EXCEPT !.i = r.i, !.j = r.j,
                                     !.buf = [@ EXCEPT ![frame.pos] = r.byte],
                                     !.pos = @ + 1]
    /\ UNCHANGED <<keyOf, panicked, inAll, outAll, last>>

\* The loop of process is over: self.i = i; self.j = j; and the return,
\* to the caller or into apply.
ProcessReturn ==
    /\ frame.pc = "loop"
    /\ frame.pos > Len(frame.buf)
    /\ rc4' = [rc4 EXCEPT ![frame.e] =
                 <<StoreBack(rc4[frame.e][1].s, frame.i, frame.j)>>]
    /\ IF frame.op = "apply"
       THEN /\ frame' = [frame EXCEPT !.pc = "applied"]
            /\ UNCHANGED <<inAll, outAll, last>>
       ELSE /\ frame' = Idle
            /\ Returned(frame.e, [pre |-> frame.pre, arg |-> frame.arg,
                                  out |-> frame.buf])
    /\ UNCHANGED <<keyOf, panicked>>

\* apply returns output.
ApplyReturn ==
    /\ frame.pc = "applied"
    /\ frame' = Idle
    /\ Returned(frame.e, [pre |-> frame.pre, arg |-> frame.arg,
                          out |-> frame.buf])
    /\ UNCHANGED <<rc4, keyOf, panicked>>

NextStep ==
    \/ \E keyBytes \in StepKeys : NewEnter("rc4_enc", keyBytes)
    \/ FillIter
    \/ MixIter
    \/ NewReturn
    \/ \E data \in StepInputs : ProcessEnter("rc4_enc", data)
    \/ \E data \in StepInputs : ApplyEnter("rc4_enc", data)
    \/ ByteIter
    \/ ProcessReturn
    \/ ApplyReturn

SpecStep == Init /\ [][NextStep]_vars

\* A call that has been entered keeps running: the thread executing
\* Rc4::new, process or apply takes its next loop iteration or its return
\* whenever one is due.  (Entering a call is the caller's choice: no fairness.)
StepFairness ==
    /\ WF_vars(FillIter)
    /\ WF_vars(MixIter)
    /\ WF_vars(NewReturn)
    /\ WF_vars(ByteIter)
    /\ WF_vars(ProcessReturn)
    /\ WF_vars(ApplyReturn)

SpecStepFair == Init /\ [][NextStep]_vars /\ StepFairness

\* ------------------------------------- one engine, more than 256 bytes

\* Keys and buffers the caller of SpecLong draws from: buffers of 0, 1, 255
\* and 256 bytes.
LongKeys   == {KeyKey, Key1, Key0}
Block(n)   == [k \in 1 .. n |-> 165]
LongInputs == {Block(0), Block(1), Block(TableSize - 1), Block(TableSize)}

\* e.process(&mut data) entered.
ProcessEnterLong(e, data) ==
    /\ ~panicked
    /\ frame.pc = "idle"
    /\ rc4[e] /= <<>>
    /\ Len(inAll[e]) + Len(data) <= MaxLongBytes
    /\ frame' = LoopFrame(e, "process", data, data)
    /\ UNCHANGED <<rc4, keyOf, panicked, inAll, outAll, last>>

\* e.apply(&data) entered.
ApplyEnterLong(e, data) ==
    /\ ~panicked
    /\ frame.pc = "idle"
    /\ rc4[e] /= <<>>
    /\ Len(inAll[e]) + Len(data) <= MaxLongBytes
    /\ frame' = LoopFrame(e, "apply", data, ToVec(data))
    /\ UNCHANGED <<rc4, keyOf, panicked, inAll, outAll, last>>

NextLong ==
    \/ \E keyBytes \in LongKeys : CallNew("rc4_enc", keyBytes)
    \/ \E data \in LongInputs : ProcessEnterLong("rc4_enc", data)
    \/ \E data \in LongInputs : ApplyEnterLong("rc4_enc", data)
    \/ ByteIter
    \/ ProcessReturn
    \/ ApplyReturn

SpecLong == Init /\ [][NextLong]_vars

\* ------------------------------------------------------------- properties

\* The reference vectors' ciphertexts: BB F3 16 E8 D9 40 AF 0A D3 and
\* 10 21 BF 04 20.
CipherPlaintext == <<187, 243, 22, 232, 217, 64, 175, 10, 211>>
CipherPedia     == <<16, 33, 191, 4, 32>>

\* Engine e exists (Rc4::new has returned it).
Built(e) == rc4[e] /= <<>>

\* The keystream an engine has applied so far: output xor input, bytewise.
XorSeq(a, b) == [k \in 1 .. Len(a) |-> BitXor(a[k], b[k])]

\* The first call on engine e is in apply, its loop run and its output about
\* to be returned.
FirstApplyDone(e) ==
    /\ frame.pc = "applied"
    /\ frame.e = e
    /\ last[e] = <<>>

\* C1: a fresh engine built from "Key" and applied once to "Plaintext" gives
\* BB F3 16 E8 D9 40 AF 0A D3, and one built from "Wiki" and applied once to
\* "pedia" gives 10 21 BF 04 20: the vector apply is about to return on the
\* engine's first call, and the one the caller then holds, are these.
C1_ReferenceVectors ==
    \A e \in Engines :
        /\ (FirstApplyDone(e) /\ keyOf[e] = <<KeyKey>> /\ frame.arg = Plaintext)
               => frame.buf = CipherPlaintext
        /\ (FirstApplyDone(e) /\ keyOf[e] = <<KeyWiki>> /\ frame.arg = Pedia)
               => frame.buf = CipherPedia
        /\ (last[e] /= <<>> /\ keyOf[e] = <<KeyKey>>
                /\ inAll[e] = Plaintext /\ last[e][1].arg = Plaintext)
               => last[e][1].out = CipherPlaintext
        /\ (last[e] /= <<>> /\ keyOf[e] = <<KeyWiki>>
                /\ inAll[e] = Pedia /\ last[e][1].arg = Pedia)
               => last[e][1].out = CipherPedia

C1_Witness ==
    /\ FirstApplyDone("rc4_enc")
    /\ keyOf["rc4_enc"] = <<KeyKey>>
    /\ frame.arg = Plaintext
    /\ frame.buf = CipherPlaintext

\* C2: with both engines built from the same key, whenever rc4_dec has been
\* given exactly the bytes rc4_enc produced, rc4_dec has produced exactly the
\* bytes rc4_enc was given (encrypting, then decrypting with a second fresh
\* engine, returns the plaintext).
C2_Symmetry ==
    (/\ Built("rc4_enc") /\ Built("rc4_dec")
     /\ keyOf["rc4_enc"] = keyOf["rc4_dec"]
     /\ inAll["rc4_dec"] = outAll["rc4_enc"])
        => outAll["rc4_dec"] = inAll["rc4_enc"]

C2_Witness ==
    /\ Built("rc4_enc") /\ Built("rc4_dec")
    /\ keyOf["rc4_enc"] = keyOf["rc4_dec"]
    /\ last["rc4_enc"] /= <<>> /\ last["rc4_dec"] /= <<>>
    /\ Len(inAll["rc4_enc"]) = 2
    /\ last["rc4_enc"][1].arg = inAll["rc4_enc"]
    /\ last["rc4_dec"][1].arg = last["rc4_enc"][1].out
    /\ inAll["rc4_dec"] = outAll["rc4_enc"]
    /\ inAll["rc4_dec"] /= inAll["rc4_enc"]
    /\ last["rc4_dec"][1].out = last["rc4_enc"][1].arg

\* The array holds each value 0..255 exactly once.
IsPermutation(s) == DOMAIN s = Byte /\ {s[n] : n \in Byte} = Byte

\* C3: the array of every engine that exists is a permutation of 0..255, in
\* every state: when Rc4::new returns it and after each byte of each call of
\* process or apply.
C3_TableIsPermutation ==
    \A e \in Engines : Built(e) => IsPermutation(rc4[e][1].s)

C3_Witness ==
    /\ frame.pc = "loop"
    /\ frame.pos > 2
    /\ frame.pos <= Len(frame.buf)
    /\ rc4[frame.e][1].s /= frame.pre.s
    /\ IsPermutation(rc4[frame.e][1].s)

\* C4: two engines built from the same key that were given the same bytes, in
\* whatever pieces (one call, several calls, empty pieces), have produced the
\* same bytes and are in the same state; and of two engines built from the
\* same key the one given fewer bytes has applied the first part of the
\* other's keystream (a call goes on where the last one stopped, a fresh
\* engine starts at the beginning).
C4_PiecesEqualWhole ==
    \A a, b \in Engines :
        (Built(a) /\ Built(b) /\ keyOf[a] = keyOf[b]) =>
            /\ inAll[a] = inAll[b] => (outAll[a] = outAll[b] /\ rc4[a] = rc4[b])
            /\ Len(inAll[a]) <= Len(inAll[b]) =>
                   XorSeq(outAll[a], inAll[a])
                       = SubSeq(XorSeq(outAll[b], inAll[b]), 1, Len(inAll[a]))

C4_Witness ==
    /\ Built("rc4_enc") /\ Built("rc4_dec")
    /\ keyOf["rc4_enc"] = keyOf["rc4_dec"]
    /\ last["rc4_enc"] /= <<>> /\ last["rc4_dec"] /= <<>>
    /\ Len(inAll["rc4_enc"]) = 2
    /\ last["rc4_enc"][1].arg = inAll["rc4_enc"]
    /\ Len(last["rc4_dec"][1].arg) = 1
    /\ inAll["rc4_dec"] = inAll["rc4_enc"]
    /\ outAll["rc4_dec"] = outAll["rc4_enc"]
    /\ rc4["rc4_dec"] = rc4["rc4_enc"]

\* Rc4::new is at work for engine e.
Constructing(e) == frame.pc \in {"fill", "mix"} /\ frame.e = e

\* C5: Rc4::new goes on to build the engine exactly when the key has 1 to 256
\* bytes; for an empty key or one of more than 256 bytes it panics (the
\* InvalidKeyError of the specification), and then no engine exists for the
\* caller and none is being built.
C5_KeyLengthCheck ==
    \A e \in Engines :
        keyOf[e] /= <<>> =>
            IF Len(keyOf[e][1]) >= 1 /\ Len(keyOf[e][1]) <= 256
            THEN Constructing(e) \/ Built(e)
            ELSE panicked /\ ~Built(e) /\ frame.pc = "idle"

C5_Witness ==
    /\ keyOf["rc4_enc"] /= <<>>
    /\ Len(keyOf["rc4_enc"][1]) = 257
    /\ panicked
    /\ ~Built("rc4_enc")

\* C6: two engines built from the same key are equal before their first
\* calls; and when both were given the same bytes, the last call with the same
\* buffer, both calls started from the same state and produced the same bytes,
\* and the engines are equal again and have produced the same bytes in all.
C6_Determinism ==
    \A a, b \in Engines :
        (Built(a) /\ Built(b) /\ keyOf[a] = keyOf[b]) =>
            /\ (last[a] = <<>> /\ last[b] = <<>>) => rc4[a] = rc4[b]
            /\ (/\ last[a] /= <<>> /\ last[b] /= <<>>
                /\ inAll[a] = inAll[b]
                /\ last[a][1].arg = last[b][1].arg)
                   => /\ last[a][1] = last[b][1]
                      /\ rc4[a] = rc4[b]
                      /\ outAll[a] = outAll[b]

C6_Witness ==
    /\ Built("rc4_enc") /\ Built("rc4_dec")
    /\ keyOf["rc4_enc"] = keyOf["rc4_dec"]
    /\ last["rc4_enc"] /= <<>> /\ last["rc4_dec"] /= <<>>
    /\ Len(inAll["rc4_enc"]) = 2
    /\ inAll["rc4_dec"] = inAll["rc4_enc"]
    /\ Len(last["rc4_enc"][1].arg) = 1
    /\ last["rc4_dec"][1] = last["rc4_enc"][1]
    /\ rc4["rc4_dec"] = rc4["rc4_enc"]
    /\ rc4["rc4_enc"][1] /= last["rc4_enc"][1].pre

\* C7: when the last calls on two engines started from the same state with
\* buffers of the same length, whatever the bytes in them, the two engines
\* are in the same state and output xor input is the same byte at every
\* position of the two calls.
C7_KeystreamIgnoresData ==
    \A a, b \in Engines :
        (/\ last[a] /= <<>> /\ last[b] /= <<>>
         /\ last[a][1].pre = last[b][1].pre
         /\ Len(last[a][1].arg) = Len(last[b][1].arg))
            => /\ rc4[a] = rc4[b]
               /\ XorSeq(last[a][1].out, last[a][1].arg)
                      = XorSeq(last[b][1].out, last[b][1].arg)

C7_Witness ==
    /\ last["rc4_enc"] /= <<>> /\ last["rc4_dec"] /= <<>>
    /\ last["rc4_enc"][1].pre = last["rc4_dec"][1].pre
    /\ Len(last["rc4_enc"][1].arg) = 2
    /\ Len(last["rc4_dec"][1].arg) = 2
    /\ last["rc4_enc"][1].arg[1] /= last["rc4_dec"][1].arg[1]
    /\ last["rc4_enc"][1].arg[2] /= last["rc4_dec"][1].arg[2]
    /\ rc4["rc4_enc"] = rc4["rc4_dec"]

\* C8: when apply is about to return, its output is what process leaves in
\* a buffer holding the same bytes when run from the state apply was entered
\* in, the engine is in the state that call of process leaves, and the
\* caller's slice still holds the bytes it was passed with.
C8_ApplyIsProcessOnCopy ==
    frame.pc = "applied" =>
        /\ frame.buf = Process(frame.pre, frame.arg).data
        /\ rc4[frame.e][1] = Process(frame.pre, frame.arg).self
        /\ frame.input = frame.arg

C8_Witness ==
    /\ frame.pc = "applied"
    /\ frame.arg = Pedia
    /\ inAll[frame.e] /= <<>>
    /\ frame.buf /= frame.arg
    /\ frame.input = Pedia
    /\ rc4[frame.e][1] /= frame.pre

\* C9: a call of process or apply on an empty buffer changes nothing: while
\* it runs and when it has returned (until the next call is entered), the
\* engine (array, i and j) is as it was when the call was entered and the
\* output is empty.
C9_EmptyBufferNoOp ==
    /\ (frame.pc \in {"loop", "applied"} /\ frame.arg = <<>>)
           => (rc4[frame.e][1] = frame.pre /\ frame.buf = <<>>)
    /\ \A e \in Engines :
           (frame.pc = "idle" /\ last[e] /= <<>> /\ last[e][1].arg = <<>>)
               => (rc4[e][1] = last[e][1].pre /\ last[e][1].out = <<>>)

C9_Witness ==
    /\ frame.pc = "idle"
    /\ last["rc4_enc"] /= <<>>
    /\ last["rc4_enc"][1].arg = <<>>
    /\ last["rc4_enc"][1].out = <<>>
    /\ inAll["rc4_enc"] /= <<>>
    /\ last["rc4_enc"][1].pre.i /= 0
    /\ last["rc4_enc"][1].pre.j /= 0
    /\ rc4["rc4_enc"][1] = last["rc4_enc"][1].pre

\* C10: every call of process or apply has produced as many bytes as it was
\* given, and so has every engine over all its calls.
C10_LengthPreserved ==
    \A e \in Engines :
        /\ Len(outAll[e]) = Len(inAll[e])
        /\ last[e] /= <<>> => Len(last[e][1].out) = Len(last[e][1].arg)

C10_Witness ==
    /\ last["rc4_dec"] /= <<>>
    /\ Len(last["rc4_dec"][1].arg) = 2
    /\ Len(last["rc4_dec"][1].out) = 2
    /\ Len(inAll["rc4_dec"]) = 3
    /\ Len(outAll["rc4_dec"]) = 3

\* The engine is as Rc4::new returned it: built, no call made on it yet and
\* none in progress.
FreshlyBuilt(e) == Built(e) /\ last[e] = <<>> /\ frame.pc = "idle"

\* The reference key-scheduling pass, steps i = lo .. hi-1 in order on
\* st = [t, j]: j = (j + t[i] + key[i mod key.length]) mod 256, then t[i] and
\* t[j] change places.
RECURSIVE RefSchedule(_, _, _, _)
RefSchedule(st, lo, hi, key) ==
    IF lo >= hi THEN st
    ELSE IF hi = lo + 1
         THEN LET j2 == (st.j + st.t[lo] + key[(lo % Len(key)) + 1]) % 256
              IN  [t |-> [st.t EXCEPT ![lo] = st.t[j2], ![j2] = st.t[lo]],
                   j |-> j2]
    ELSE LET mid   == (lo + hi) \div 2
             first == RefSchedule(st, lo, mid, key)
         IN  IF first = first THEN RefSchedule(first, mid, hi, key) ELSE first

\* The identity table, 0..255 -> 0..255.
IdentityTable == [n \in 0 .. 255 |-> n]

\* The engine the reference pass gives for a key: the scheduled table and
\* indexA = indexB = 0.
RefEngine(key) ==
    [s |-> RefSchedule([t |-> IdentityTable, j |-> 0], 0, 256, key).t,
     i |-> 0, j |-> 0]

\* C11: for every accepted key, the engine Rc4::new returns has i = 0, j = 0
\* and the table of the reference key-scheduling pass: identity table, j = 0,
\* then for i = 0..255 in order j = (j + table[i] + key[i mod key.length])
\* mod 256 and table[i], table[j] swapped.  This holds of the engine built
\* loop iteration by loop iteration and of Rc4::new taken as one call.
C11_NewIsReferenceSchedule ==
    \A e \in Engines :
        FreshlyBuilt(e) =>
            /\ rc4[e][1].i = 0
            /\ rc4[e][1].j = 0
            /\ rc4[e][1] = RefEngine(keyOf[e][1])
            /\ New(keyOf[e][1]) = RefEngine(keyOf[e][1])

C11_Witness ==
    /\ FreshlyBuilt("rc4_enc")
    /\ keyOf["rc4_enc"] = <<KeyWiki>>
    /\ rc4["rc4_enc"][1].s /= IdentityTable
    /\ rc4["rc4_enc"][1] = RefEngine(KeyWiki)

\* A byte step of the call in progress has just run: the locals, the array
\* and the byte at pos - 1 are as it left them.
StepDone == frame.pc = "loop" /\ frame.pos > 1

\* The keystream byte the step just run has applied: the byte it left in the
\* buffer xor the byte the caller passed there.
StepKeystream == BitXor(frame.buf[frame.pos - 1], frame.arg[frame.pos - 1])

\* C12: the keystream byte of every byte step is
\* table[(table[indexA] + table[indexB]) mod 256] read from the array as the
\* step leaves it (after the swap), at the indices as the step leaves them;
\* also when the two indices are equal.
C12_KeystreamFromSwappedTable ==
    StepDone =>
        LET s == rc4[frame.e][1].s
        IN  StepKeystream = s[(s[frame.i] + s[frame.j]) % 256]

C12_Witness ==
    /\ StepDone
    /\ frame.i = frame.j
    /\ frame.buf[frame.pos - 1] /= frame.arg[frame.pos - 1]
    /\ LET s == rc4[frame.e][1].s
       IN  StepKeystream = s[(2 * s[frame.i]) % 256]

\* Every entry of the array is a u8 value.
ByteTable(s) == DOMAIN s = Byte /\ \A n \in Byte : s[n] \in Byte

\* The mixing loop has an iteration left to run.
MixPending == frame.pc = "mix" /\ frame.i < TableSize

\* The j that iteration computes (line 33) and swaps at (line 35).
MixPendingJ ==
    WrappingAdd(WrappingAdd(frame.j, frame.s[frame.i]),
                frame.key[(frame.i % Len(frame.key)) + 1])

\* The loop of process has a byte left to handle.
BytePending == frame.pc = "loop" /\ frame.pos <= Len(frame.buf)

\* The i and j that iteration computes (lines 53, 57), given that i is a
\* table index, and the t it reads the keystream byte at (line 65), given that
\* j is one too.
BytePendingI == WrappingAdd(frame.i, 1)
BytePendingJ == WrappingAdd(frame.j, rc4[frame.e][1].s[BytePendingI])
BytePendingT ==
    WrappingAdd(rc4[frame.e][1].s[BytePendingI], rc4[frame.e][1].s[BytePendingJ])

\* C13: in every state the array entries, i, j (the fields and the locals of
\* process) and the j of the mixing loop are in 0..255; every index the next
\* loop iteration reads or writes the array at is in 0..255; and each of them
\* is the sum of its operands reduced modulo 256.
C13_IndicesInRange ==
    /\ \A e \in Engines :
           Built(e) => /\ ByteTable(rc4[e][1].s)
                       /\ rc4[e][1].i \in Byte
                       /\ rc4[e][1].j \in Byte
    /\ frame.pc = "fill" => frame.n \in Byte
    /\ frame.pc = "mix" => /\ ByteTable(frame.s)
                           /\ frame.j \in Byte
                           /\ frame.i \in 0 .. TableSize
    /\ MixPending =>
           /\ frame.i \in Byte
           /\ MixPendingJ \in Byte
           /\ MixPendingJ = (frame.j + frame.s[frame.i]
                             + frame.key[(frame.i % Len(frame.key)) + 1]) % 256
    /\ frame.pc = "loop" => frame.i \in Byte /\ frame.j \in Byte
    /\ BytePending =>
           /\ BytePendingI \in Byte
           /\ BytePendingI = (frame.i + 1) % 256
           /\ BytePendingJ \in Byte
           /\ BytePendingJ = (frame.j + rc4[frame.e][1].s[BytePendingI]) % 256
           /\ BytePendingT \in Byte
           /\ BytePendingT = (rc4[frame.e][1].s[BytePendingI]
                              + rc4[frame.e][1].s[BytePendingJ]) % 256

\* A byte step has just run in which j + S[i] passed 255 and wrapped (the
\* entry now at j is the S[i] that was added, and j is below it), and the
\* next step's two entries add up to more than 255 as well.
C13_Witness ==
    /\ StepDone
    /\ BytePending
    /\ frame.j < rc4[frame.e][1].s[frame.j]
    /\ frame.j \in Byte
    /\ rc4[frame.e][1].s[BytePendingI] + rc4[frame.e][1].s[BytePendingJ] > 255
    /\ BytePendingT \in Byte

\* key is some key given twice over.
IsDoubled(key) ==
    /\ Len(key) % 2 = 0
    /\ Len(key) > 0
    /\ SubSeq(key, 1, Len(key) \div 2) = SubSeq(key, (Len(key) \div 2) + 1, Len(key))

\* C14: the engine Rc4::new returns for a key K of at most 128 bytes is the
\* engine it returns for K given twice over (K \o K), and the engine it
\* returns for a key that is some K twice over is the one it returns for K:
\* same array, same i, same j.
C14_KeyIsCyclic ==
    \A e \in Engines :
        FreshlyBuilt(e) =>
            LET key == keyOf[e][1]
            IN  /\ 2 * Len(key) <= 256 => rc4[e][1] = New(key \o key)
                /\ IsDoubled(key) =>
                       rc4[e][1] = New(SubSeq(key, 1, Len(key) \div 2))

C14_Witness ==
    /\ FreshlyBuilt("rc4_enc")
    /\ keyOf["rc4_enc"] = <<Key128>>
    /\ Len(Key128 \o Key128) = 256
    /\ rc4["rc4_enc"][1] = New(Key128 \o Key128)
    /\ rc4["rc4_enc"][1] /= New(Key128 \o KeyKey)

\* What one step may do to the loop counters: the fill loop starts at 0,
\* goes up by one an iteration and is left from the iteration with i = 255
\* (the 256th); the mixing loop starts at 0, goes up by one and Rc4::new
\* returns with 256 iterations run; the loop of process starts at the first
\* byte, goes on by one byte an iteration over a buffer that keeps its length,
\* and is left with as many iterations run as the buffer has bytes.
CountedStep ==
    /\ (frame.pc = "idle" /\ frame'.pc = "fill") => frame'.n = 0
    /\ (frame.pc = "fill" /\ frame'.pc = "fill") => frame'.n = frame.n + 1
    /\ frame.pc = "fill" => frame'.pc \in {"fill", "mix"}
    /\ (frame.pc = "fill" /\ frame'.pc = "mix") =>
           (frame.n + 1 = 256 /\ frame'.i = 0)
    /\ (frame.pc = "mix" /\ frame'.pc = "mix") => frame'.i = frame.i + 1
    /\ frame.pc = "mix" => frame'.pc \in {"mix", "idle"}
    /\ (frame.pc = "mix" /\ frame'.pc = "idle") => frame.i = 256
    /\ (frame.pc = "idle" /\ frame'.pc = "loop") =>
           (frame'.pos = 1 /\ Len(frame'.buf) = Len(frame'.arg))
    /\ (frame.pc = "loop" /\ frame'.pc = "loop") =>
           (frame'.pos = frame.pos + 1 /\ Len(frame'.buf) = Len(frame.buf))
    /\ (frame.pc = "loop" /\ frame'.pc /= "loop") =>
           frame.pos - 1 = Len(frame.arg)
    /\ frame.pc = "applied" => frame'.pc = "idle"

\* C15: every call runs to completion.  A call of Rc4::new that has passed the
\* key check returns its engine, after exactly 256 iterations of the fill
\* loop and 256 of the mixing loop; a call of process or apply returns, after
\* exactly as many byte steps as the buffer has bytes.
C15_CallsComplete ==
    /\ [][CountedStep]_vars
    /\ (frame.pc \in {"fill", "mix"}) ~> FreshlyBuilt("rc4_enc")
    /\ (frame.pc \in {"loop", "applied"}) ~> (frame.pc = "idle")

C15_Witness ==
    /\ frame.pc = "idle"
    /\ Built("rc4_enc")
    /\ keyOf["rc4_enc"] = <<Key256>>
    /\ last["rc4_enc"] /= <<>>
    /\ last["rc4_enc"][1].arg = Plaintext
    /\ Len(last["rc4_enc"][1].out) = 9

\* The engines Rc4::new returns for the accepted keys of PairKeys.
FreshEngines == [key \in {k \in PairKeys : ~KeyRejected(k)} |-> New(key)]

\* Engine e run alone: built from its key and given, with no other engine
\* about, all the bytes e has been given (in one call or in e's pieces: it
\* comes to the same, see C4).
RunAlone(e) == Process(FreshEngines[keyOf[e][1]], inAll[e])

\* The step is a call on engine e.
CallOn(e) == rc4'[e] /= rc4[e] \/ inAll'[e] /= inAll[e] \/ last'[e] /= last[e]

\* C16: engines share no state.  A call of process or apply on one engine
\* leaves the other engine (array, i, j) and what it has been given and has
\* produced as they were; and in every state, however the calls on the two
\* engines were interleaved, each engine is in the state, and has produced
\* the bytes, of that engine run alone on its own input.
C16_EnginesIndependent ==
    /\ [][\A e \in Engines : (Built(e) /\ CallOn(e)) =>
              \A o \in Engines \ {e} :
                  /\ rc4'[o] = rc4[o]
                  /\ inAll'[o] = inAll[o]
                  /\ outAll'[o] = outAll[o]]_vars
    /\ [](\A e \in Engines :
              Built(e) => /\ rc4[e][1] = RunAlone(e).self
                          /\ outAll[e] = RunAlone(e).data)

\* Both engines exist, built from different keys, each has had two calls of
\* one byte (so the calls of one lie around or between the calls of the
\* other in some behaviours), and each is where its run alone is.
C16_Witness ==
    /\ Built("rc4_enc") /\ Built("rc4_dec")
    /\ keyOf["rc4_enc"] /= keyOf["rc4_dec"]
    /\ Len(inAll["rc4_enc"]) = 2 /\ Len(inAll["rc4_dec"]) = 2
    /\ Len(last["rc4_enc"][1].arg) = 1 /\ Len(last["rc4_dec"][1].arg) = 1
    /\ rc4["rc4_enc"][1] = RunAlone("rc4_enc").self
    /\ rc4["rc4_dec"][1] = RunAlone("rc4_dec").self
    /\ rc4["rc4_enc"][1].i = 2 /\ rc4["rc4_dec"][1].i = 2
    /\ rc4["rc4_enc"][1].s /= rc4["rc4_dec"][1].s

\* C17: every byte processed advances i by one modulo 256.  An engine that
\* has been given n bytes since Rc4::new, over whatever calls of process and
\* apply, has i = n mod 256 when no call is running; while a call runs, its
\* local i counts the bytes of the earlier calls and of this one so far; and
\* when the loop inside apply has returned, self.i counts this call's bytes
\* too.
C17_IndexCountsBytes ==
    /\ \A e \in Engines :
           (Built(e) /\ frame.pc = "idle") =>
               rc4[e][1].i = Len(inAll[e]) % 256
    /\ frame.pc = "loop" =>
           frame.i = (Len(inAll[frame.e]) + (frame.pos - 1)) % 256
    /\ frame.pc = "applied" =>
           rc4[frame.e][1].i = (Len(inAll[frame.e]) + Len(frame.arg)) % 256

\* The engine has been given 256 bytes, the last 255 of them in one call, and
\* its i is back at 0.
C17_Witness ==
    /\ frame.pc = "idle"
    /\ Built("rc4_enc")
    /\ Len(inAll["rc4_enc"]) = 256
    /\ Len(last["rc4_enc"][1].arg) = 255
    /\ last["rc4_enc"][1].pre.i = 1
    /\ rc4["rc4_enc"][1].i = 0

====
